---- MODULE Spec2Model ----
(***************************************************************************)
(* QuickServe booking lifecycle: the bookings router of the public API     *)
(* (create, PATCH /:id/status, POST /:id/accept) and the admin API's       *)
(* booking cancel and worker verify / reject, as concurrent request        *)
(* handlers over one database.  Every `await` of a handler is a point      *)
(* where another request may run.                                          *)
(***************************************************************************)
EXTENDS Integers, Sequences, FiniteSets, Bags, TLC

\* ---------------------------------------------------------------- bounds
\* requests that may be between their first read and their response
MaxInFlight == 2

\* ------------------------------------------------------------ the world
BookingIds == {"b1"}
Users == {"uc", "uw1", "uw2", "ua"}
Customers == {"uc"}
Workers == {"w1", "w2"}
Categories == {"Plumber", "Electrician"}
Null == "null"

\* an optional value: <<>> is null / undefined, <<v>> is the value v
None == <<>>
Some(v) == <<v>>

\* what new Date() returns
DateNow == "date"

\* User.role, as authenticate loads it into req.user
Role == [u \in Users |->
           CASE u = "uc" -> "CUSTOMER"
             [] u = "ua" -> "ADMIN"
             [] OTHER -> "WORKER"]

\* Worker.userId
WorkerUser == [w \in Workers |-> IF w = "w1" THEN "uw1" ELSE "uw2"]

\* Worker.verificationStatus as the seed leaves it
SeedVerification == [w \in Workers |->
                       IF w = "w1" THEN "VERIFIED" ELSE "PENDING"]

\* the workers whose verification the admin decides: those the seed leaves
\* PENDING
AdminTargets == {w \in Workers : SeedVerification[w] = "PENDING"}

\* WorkerService rows with isActive = true, and their basePrice
Offers == {<<"w1", "Plumber">>, <<"w2", "Plumber">>, <<"w2", "Electrician">>}
BasePrice == [o \in Offers |->
                CASE o = <<"w1", "Plumber">> -> 50
                  [] o = <<"w2", "Plumber">> -> 60
                  [] OTHER -> 70]

\* prisma.worker.findUnique({ where: { userId } }): the worker id or Null
WorkerOfUser(u) ==
    IF \E w \in Workers : WorkerUser[w] = u
    THEN CHOOSE w \in Workers : WorkerUser[w] = u
    ELSE Null

Statuses == {"PENDING", "ACCEPTED", "WORKER_EN_ROUTE", "IN_PROGRESS",
             "COMPLETED", "CANCELLED"}

\* updateBookingStatusSchema.status
SchemaStatuses == {"ACCEPTED", "WORKER_EN_ROUTE", "IN_PROGRESS",
                   "COMPLETED", "CANCELLED"}

\* request bodies the clients may send
TargetInputs == Statuses
PriceInputs == {None, Some(-5), Some(0), Some(55)}

\* updateBookingStatusSchema.parse(req.body)
ParseOk(target, price) ==
    /\ target \in SchemaStatuses
    /\ (price # None => price[1] > 0)

validTransitions ==
    [s \in {"PENDING", "ACCEPTED", "WORKER_EN_ROUTE", "IN_PROGRESS"} |->
       CASE s = "PENDING" -> {"ACCEPTED", "CANCELLED"}
         [] s = "ACCEPTED" -> {"WORKER_EN_ROUTE", "CANCELLED"}
         [] s = "WORKER_EN_ROUTE" -> {"IN_PROGRESS", "CANCELLED"}
         [] s = "IN_PROGRESS" -> {"COMPLETED", "CANCELLED"}]

\* validTransitions[booking.status]?.includes(data.status)
TransitionOk(from, to) ==
    /\ from \in DOMAIN validTransitions
    /\ to \in validTransitions[from]

notificationTypes ==
    [s \in {"ACCEPTED", "WORKER_EN_ROUTE", "COMPLETED"} |->
       CASE s = "ACCEPTED" -> "BOOKING_ACCEPTED"
         [] s = "WORKER_EN_ROUTE" -> "WORKER_EN_ROUTE"
         [] s = "COMPLETED" -> "SERVICE_COMPLETED"]

\* --------------------------------------------------------------- state
VARIABLES
    bookings,       \* Booking table (with its conversation): id -> row
    workers,        \* Worker.verificationStatus: worker id -> status
    inflight,       \* handlers waiting at an await: a bag of requests
    resp,           \* the response being sent, NoResponse between two
    notified,       \* the Notification rows that response's handler inserted
    emitted,        \* the socket events that response's handler emitted
    payments,       \* Payment table: booking id -> row (bookingId is unique)
    reviews,        \* Review table: booking id -> row (bookingId is unique)
    ratings,        \* Worker.averageRating (in tenths) and totalReviews
    users,          \* User.status: user id -> status, "NONE" without a row
    otps,           \* OtpCode table: a sequence of rows, the id is the index
    nodeEnv,        \* env.NODE_ENV
    issued,         \* the users a refresh token was signed for
    options,        \* retry: maxAttempts, delayMs, maxDelayMs, onRetry
    attempt,        \* retry: the loop counter
    pc,             \* retry: where the call is
    lastError,      \* retry: the error caught last, 0 when undefined
    calls,          \* retry: the calls of fn, onRetry and sleep made so far
    outcome         \* retry: what the call returned or threw

\* the tables of the authentication service, and the environment
authVars == <<users, otps, nodeEnv, issued>>

\* the locals of a call of retry, and what it has done
retryVars == <<options, attempt, pc, lastError, calls, outcome>>

vars == <<bookings, workers, inflight, resp, notified, emitted, payments,
          reviews, ratings, authVars, retryVars>>

NoBooking ==
    [exists |-> FALSE, customerId |-> Null, workerId |-> Null,
     categoryId |-> Null, status |-> "PENDING", estimatedPrice |-> None,
     finalPrice |-> None, startedAt |-> None, completedAt |-> None,
     conversation |-> FALSE, participants |-> {}]

\* the `data` of a prisma.booking.update: None leaves the column alone
NoUpdate ==
    [status |-> None, workerId |-> None, estimatedPrice |-> None,
     finalPrice |-> None, startedAt |-> None, completedAt |-> None]

\* a handler's local variables while it waits for the database: the request
\* (actor, booking, target, price), the booking row it read (snap), the data
\* it is about to write (upd), the worker it acts for
Request(kind, actor, b, target, price, snap, upd, worker) ==
    [kind |-> kind, actor |-> actor, booking |-> b, target |-> target,
     price |-> price, snap |-> snap, upd |-> upd, worker |-> worker]

\* a response, with the request it answers and the booking row as it was
\* when the handler made its checks
Response(kind, actor, b, target, price, code, snap) ==
    [kind |-> kind, actor |-> actor, booking |-> b, target |-> target,
     price |-> price, code |-> code, snap |-> snap]

NoResponse == Response("none", Null, Null, Null, None, Null, NoBooking)

Notification(u, t, b) == [userId |-> u, type |-> t, bookingId |-> b]

\* io.to(room).emit(event, data): data.status is None when data has no status
Event(room, event, status) == [room |-> room, event |-> event,
                               status |-> status]
\* the rooms `booking:<id>` and `user:<id>`
BookingRoom(b) == <<"booking", b>>
UserRoom(u) == <<"user", u>>

NoPayment ==
    [exists |-> FALSE, amount |-> None, method |-> Null, status |-> Null,
     paidAt |-> None, providerRef |-> None]

NoReview ==
    [exists |-> FALSE, customerId |-> Null, workerId |-> Null,
     rating |-> None]

\* a worker without reviews
NoRating == [averageRating |-> 0, totalReviews |-> 0]

\* prisma.booking.update({ where: { id }, data })
ApplyUpdate(row, data) ==
    [row EXCEPT
       !.status = IF data.status # None THEN data.status[1] ELSE @,
       !.workerId = IF data.workerId # None THEN data.workerId[1] ELSE @,
       !.estimatedPrice =
            IF data.estimatedPrice # None THEN data.estimatedPrice ELSE @,
       !.finalPrice = IF data.finalPrice # None THEN data.finalPrice ELSE @,
       !.startedAt = IF data.startedAt # None THEN data.startedAt ELSE @,
       !.completedAt =
            IF data.completedAt # None THEN data.completedAt ELSE @]

InFlight == BagToSet(inflight)
Start(r) == inflight' = inflight (+) SetToBag({r})
End(r) == inflight' = inflight (-) SetToBag({r})
Room == BagCardinality(inflight) < MaxInFlight
\* the last response has left
Quiet == resp = NoResponse

\* res.json after the handler inserted the Notification rows `made`
Succeed(response, made) ==
    /\ resp' = response
    /\ notified' = made

\* the error handler's response to an error thrown before any insert
Fail(response) ==
    /\ resp' = response
    /\ notified' = {}
    /\ emitted' = {}

\* the events the handler emitted before its response
Emit(events) == emitted' = events

\* retry has not been called
NoOptions ==
    [maxAttempts |-> 3, delayMs |-> 1000, maxDelayMs |-> 30000,
     onRetry |-> FALSE]

InitRetryIdle ==
    /\ options = NoOptions
    /\ attempt = 0
    /\ pc = "idle"
    /\ lastError = 0
    /\ calls = <<>>
    /\ outcome = <<>>

\* every user registered and ACTIVE, no OTP requested, NODE_ENV at its
\* default
InitAuthIdle ==
    /\ users = [u \in Users |-> "ACTIVE"]
    /\ otps = <<>>
    /\ nodeEnv = "development"
    /\ issued = {}

Init ==
    /\ bookings = [b \in BookingIds |-> NoBooking]
    /\ workers = SeedVerification
    /\ inflight = EmptyBag
    /\ resp = NoResponse
    /\ notified = {}
    /\ emitted = {}
    /\ InitAuthIdle
    /\ InitRetryIdle
    /\ payments = [b \in BookingIds |-> NoPayment]
    /\ reviews = [b \in BookingIds |-> NoReview]
    /\ ratings = [w \in Workers |-> NoRating]

\* the response leaves
Respond ==
    /\ ~Quiet
    /\ resp' = NoResponse
    /\ notified' = {}
    /\ emitted' = {}
    /\ UNCHANGED <<retryVars, authVars, bookings, workers, inflight, payments,
                   reviews, ratings>>

\* ------------------------------------------- PATCH /bookings/:id/status
\* a variant of isWorker that also lets an admin through
isWorkerOrAdmin(booking, actor) ==
    \/ Role[actor] = "ADMIN"
    \/ /\ booking.workerId # Null
       /\ WorkerUser[booking.workerId] = actor

\* booking.worker?.userId === req.user.id
isWorker(booking, actor) ==
    /\ booking.workerId # Null
    /\ WorkerUser[booking.workerId] = actor

\* booking.customerId === req.user.id
isCustomer(booking, actor) == booking.customerId = actor

\* a variant of Permitted in which only the worker may cancel
PermittedWorkerOnly(booking, actor, target) == isWorker(booking, actor)

\* a variant of Permitted without the permission checks
PermittedAnyone(booking, actor, target) == TRUE

\* the permission checks: TRUE when the request may go on
Permitted(booking, actor, target) ==
    IF target = "CANCELLED"
    THEN isWorker(booking, actor) \/ isCustomer(booking, actor)
    ELSE isWorker(booking, actor)

\* the claim branch: ACCEPTED on a booking without a worker
ClaimBranch(booking, target) ==
    target = "ACCEPTED" /\ booking.workerId = Null

\* a variant of updateData that takes the finalPrice whatever the target
updateDataPriceAnyTarget(booking, actor, target, price) ==
    [NoUpdate EXCEPT
       !.status = Some(target),
       !.workerId = IF ClaimBranch(booking, target)
                    THEN Some(WorkerOfUser(actor)) ELSE None,
       !.startedAt = IF target = "IN_PROGRESS" THEN Some(DateNow) ELSE None,
       !.completedAt = IF target = "COMPLETED" THEN Some(DateNow) ELSE None,
       !.finalPrice = IF price # None /\ price[1] # 0 THEN price ELSE None]

\* a variant of updateData that records no startedAt
updateDataNoStartedAt(booking, actor, target, price) ==
    [NoUpdate EXCEPT
       !.status = Some(target),
       !.workerId = IF ClaimBranch(booking, target)
                    THEN Some(WorkerOfUser(actor)) ELSE None,
       !.completedAt = IF target = "COMPLETED" THEN Some(DateNow) ELSE None,
       !.finalPrice = IF target = "COMPLETED" /\ price # None /\ price[1] # 0
                      THEN price ELSE None]

\* updateData, built between the read of the booking and its update
updateData(booking, actor, target, price) ==
    [NoUpdate EXCEPT
       !.status = Some(target),
       !.workerId = IF ClaimBranch(booking, target)
                    THEN Some(WorkerOfUser(actor)) ELSE None,
       !.startedAt = IF target = "IN_PROGRESS" THEN Some(DateNow) ELSE None,
       !.completedAt = IF target = "COMPLETED" THEN Some(DateNow) ELSE None,
       !.finalPrice = IF target = "COMPLETED" /\ price # None /\ price[1] # 0
                      THEN price ELSE None]

\* a variant of PatchCheck with the permission checks ahead of the
\* transition check
PatchCheckPermissionFirst(booking, actor, target, price) ==
    CASE ~ParseOk(target, price) -> "VALIDATION_ERROR"
      [] ~booking.exists -> "NOT_FOUND"
      [] ~Permitted(booking, actor, target) -> "FORBIDDEN"
      [] ~TransitionOk(booking.status, target) -> "INVALID_STATUS_TRANSITION"
      [] ClaimBranch(booking, target) /\ WorkerOfUser(actor) = Null
            -> "NOT_WORKER"
      [] OTHER -> "OK"

\* the error the handler throws before it writes, or "OK"
PatchCheck(booking, actor, target, price) ==
    CASE ~ParseOk(target, price) -> "VALIDATION_ERROR"
      [] ~booking.exists -> "NOT_FOUND"
      [] ~TransitionOk(booking.status, target) -> "INVALID_STATUS_TRANSITION"
      [] ~Permitted(booking, actor, target) -> "FORBIDDEN"
      [] ClaimBranch(booking, target) /\ WorkerOfUser(actor) = Null
            -> "NOT_WORKER"
      [] OTHER -> "OK"

\* parse, findUnique, the checks, updateData
PatchRead(actor, b, target, price) ==
    LET booking == bookings[b]
        check == PatchCheck(booking, actor, target, price)
    IN /\ Quiet /\ Room
       /\ IF check = "OK"
          THEN /\ Start(Request("patch", actor, b, target, price, booking,
                          updateData(booking, actor, target, price), Null))
               /\ UNCHANGED <<resp, notified, emitted>>
          ELSE /\ Fail(Response("patch", actor, b, target, price, check,
                                booking))
               /\ UNCHANGED inflight
       /\ UNCHANGED <<retryVars, authVars, bookings, workers, payments,
                      reviews, ratings>>

\* the events a status update emits: booking:status to the booking's room,
\* and the notification to its customer
PatchEvents(r) ==
    {Event(BookingRoom(r.booking), "booking:status", Some(r.target))}
    \cup (IF r.target \in DOMAIN notificationTypes
          THEN {Event(UserRoom(r.snap.customerId), "notification", None)}
          ELSE {})

\* a variant of PatchNotifications that creates none
PatchNotificationsNone(r) == {}

\* the notifications a status update creates
PatchNotifications(r) ==
    IF r.target \in DOMAIN notificationTypes
    THEN {Notification(r.snap.customerId, notificationTypes[r.target],
                       r.booking)}
    ELSE {}

\* prisma.booking.update, the customer's notification, res.json
PatchUpdate(r) ==
    /\ Quiet
    /\ r \in InFlight /\ r.kind = "patch"
    /\ bookings' = [bookings EXCEPT ![r.booking] = ApplyUpdate(@, r.upd)]
    /\ End(r)
    /\ Succeed(Response("patch", r.actor, r.booking, r.target, r.price, "OK",
                        r.snap),
               PatchNotifications(r))
    /\ Emit(PatchEvents(r))
    /\ UNCHANGED <<retryVars, authVars, workers, payments, reviews, ratings>>

\* ------------------------------------------------------ POST /bookings
CategoryInputs == Categories \cup {"unknown"}

\* prisma.workerService.findFirst({ where: { worker: { id, verificationStatus:
\* 'VERIFIED' }, categoryId, isActive: true } }) finds a row
VerifiedService(w, category) ==
    /\ workers[w] = "VERIFIED"
    /\ <<w, category>> \in Offers

\* the error the handler throws before it creates the booking, or "OK"
CreateCheckCode(category, w) ==
    CASE category \notin Categories -> "NOT_FOUND"
      [] w # Null /\ ~VerifiedService(w, category) -> "INVALID_WORKER"
      [] OTHER -> "OK"

FreeIds == {b \in BookingIds : ~bookings[b].exists}
Inserting ==
    BagCardinality([r \in {x \in InFlight : x.kind = "create"}
                      |-> inflight[r]])

\* the row prisma.booking.create inserts
NewBooking(actor, w, category, estimatedPrice) ==
    [NoBooking EXCEPT !.exists = TRUE, !.customerId = actor, !.workerId = w,
       !.categoryId = category, !.status = "PENDING",
       !.estimatedPrice = estimatedPrice]

\* the category and worker-service lookups
CreateCheck(actor, category, w) ==
    LET check == CreateCheckCode(category, w)
        price == IF w # Null THEN Some(BasePrice[<<w, category>>]) ELSE None
    IN /\ Quiet /\ Room
       /\ Cardinality(FreeIds) > Inserting
       /\ IF check = "OK"
          THEN /\ Start(Request("create", actor, Null, "PENDING", None,
                          NewBooking(actor, w, category, price), NoUpdate, w))
               /\ UNCHANGED <<resp, notified, emitted>>
          ELSE /\ Fail(Response("create", actor, Null, "PENDING", None, check,
                                NoBooking))
               /\ UNCHANGED inflight
       /\ UNCHANGED <<retryVars, authVars, bookings, workers, payments,
                      reviews, ratings>>

\* prisma.booking.create, the conversation, the requested worker's
\* notification, res.status(201)
CreateInsert(r) ==
    LET b == CHOOSE id \in FreeIds : TRUE
        made == IF r.worker # Null
                THEN {Notification(WorkerUser[r.worker], "BOOKING_REQUEST", b)}
                ELSE {}
        members == {r.actor} \cup
                   (IF r.worker # Null THEN {WorkerUser[r.worker]} ELSE {})
    IN /\ Quiet
       /\ r \in InFlight /\ r.kind = "create"
       /\ bookings' = [bookings EXCEPT ![b] =
              [r.snap EXCEPT !.conversation = TRUE, !.participants = members]]
       /\ End(r)
       /\ Succeed(Response("create", r.actor, b, r.target, r.price, "OK",
                           r.snap), made)
       /\ Emit(IF r.worker # Null
               THEN {Event(UserRoom(WorkerUser[r.worker]), "booking:new",
                           None)}
               ELSE {})
       /\ UNCHANGED <<retryVars, authVars, workers, payments, reviews,
                      ratings>>

\* ------------------------------------------- POST /bookings/:id/accept
\* a variant of AcceptData that leaves workerId alone
AcceptDataStatusOnly(w, basePrice) ==
    [NoUpdate EXCEPT !.status = Some("ACCEPTED"),
       !.estimatedPrice = Some(basePrice)]

\* the `data` of the accept shortcut's update
AcceptData(w, basePrice) ==
    [NoUpdate EXCEPT !.workerId = Some(w), !.status = Some("ACCEPTED"),
       !.estimatedPrice = Some(basePrice)]

\* authorize('WORKER'), the worker lookup and its verification check, the
\* booking lookup and its status check, the worker-service lookup: the error
\* the handler throws before it writes, or "OK"
AcceptCheck(booking, actor) ==
    CASE Role[actor] # "WORKER" -> "FORBIDDEN"
      [] WorkerOfUser(actor) = Null -> "NOT_VERIFIED"
      [] workers[WorkerOfUser(actor)] # "VERIFIED" -> "NOT_VERIFIED"
      [] ~booking.exists -> "NOT_FOUND"
      [] booking.status # "PENDING" -> "NOT_AVAILABLE"
      [] <<WorkerOfUser(actor), booking.categoryId>> \notin Offers
            -> "SERVICE_NOT_OFFERED"
      [] OTHER -> "OK"

AcceptRead(actor, b) ==
    LET booking == bookings[b]
        check == AcceptCheck(booking, actor)
        w == WorkerOfUser(actor)
    IN /\ Quiet /\ Room
       /\ IF check = "OK"
          THEN /\ Start(Request("accept", actor, b, "ACCEPTED", None, booking,
                          AcceptData(w, BasePrice[<<w, booking.categoryId>>]),
                          w))
               /\ UNCHANGED <<resp, notified, emitted>>
          ELSE /\ Fail(Response("accept", actor, b, "ACCEPTED", None, check,
                                booking))
               /\ UNCHANGED inflight
       /\ UNCHANGED <<retryVars, authVars, bookings, workers, payments,
                      reviews, ratings>>

\* prisma.booking.update, the conversation participant, the customer's
\* notification, res.json
AcceptUpdate(r) ==
    LET b == r.booking
        row == ApplyUpdate(bookings[b], r.upd)
    IN /\ Quiet
       /\ r \in InFlight /\ r.kind = "accept"
       /\ bookings' = [bookings EXCEPT ![b] =
              [row EXCEPT !.participants =
                            IF row.conversation THEN @ \cup {r.actor} ELSE @]]
       /\ End(r)
       /\ Succeed(Response("accept", r.actor, b, r.target, r.price, "OK",
                           r.snap),
                  {Notification(r.snap.customerId, "BOOKING_ACCEPTED", b)})
       /\ Emit({Event(UserRoom(r.snap.customerId), "booking:accepted",
                      None)})
       /\ UNCHANGED <<retryVars, authVars, workers, payments, reviews,
                      ratings>>

\* ------------------------------------ POST /admin/bookings/:id/cancel
\* prisma.booking.update({ data: { status: 'CANCELLED' } })
AdminCancelData == [NoUpdate EXCEPT !.status = Some("CANCELLED")]

\* the notifications an admin cancel creates for the row it updated
AdminCancelNotifications(row, b) ==
    (IF row.workerId # Null
     THEN {Notification(WorkerUser[row.workerId], "BOOKING_CANCELLED", b)}
     ELSE {})
    \cup {Notification(row.customerId, "BOOKING_CANCELLED", b)}

\* the update, the worker's and the customer's notifications, res.json
AdminCancel(b) ==
    LET row == ApplyUpdate(bookings[b], AdminCancelData) IN
    /\ Quiet
    /\ IF bookings[b].exists
       THEN /\ bookings' = [bookings EXCEPT ![b] = row]
            /\ Succeed(Response("adminCancel", "ua", b, "CANCELLED", None,
                                "OK", row),
                       AdminCancelNotifications(row, b))
            /\ Emit({})
       ELSE /\ Fail(Response("adminCancel", "ua", b, "CANCELLED", None,
                             "NOT_FOUND", NoBooking))
            /\ UNCHANGED bookings
    /\ UNCHANGED <<retryVars, authVars, workers, inflight, payments,
                   reviews, ratings>>

\* ----------------------------- POST /admin/workers/:id/verify, /reject
AdminVerify(w) ==
    /\ Quiet
    /\ workers' = [workers EXCEPT ![w] = "VERIFIED"]
    /\ Succeed(Response("verify", "ua", Null, Null, None, "OK", NoBooking),
               {Notification(WorkerUser[w], "SYSTEM", Null)})
    /\ Emit({})
    /\ UNCHANGED <<retryVars, authVars, bookings, inflight, payments,
                   reviews, ratings>>

AdminReject(w) ==
    /\ Quiet
    /\ workers' = [workers EXCEPT ![w] = "REJECTED"]
    /\ Succeed(Response("reject", "ua", Null, Null, None, "OK", NoBooking),
               {Notification(WorkerUser[w], "SYSTEM", Null)})
    /\ Emit({})
    /\ UNCHANGED <<retryVars, authVars, bookings, inflight, payments,
                   reviews, ratings>>

\* ------------------------------------------------------- specification
Next ==
    \/ \E actor \in Users, b \in BookingIds,
          target \in TargetInputs, price \in PriceInputs :
            PatchRead(actor, b, target, price)
    \/ \E r \in InFlight : PatchUpdate(r)
    \/ \E actor \in Customers, category \in CategoryInputs,
          w \in Workers \cup {Null} : CreateCheck(actor, category, w)
    \/ \E r \in InFlight : CreateInsert(r)
    \/ \E actor \in Users, b \in BookingIds : AcceptRead(actor, b)
    \/ \E r \in InFlight : AcceptUpdate(r)
    \/ \E b \in BookingIds : AdminCancel(b)
    \/ \E w \in AdminTargets : AdminVerify(w)
    \/ \E w \in AdminTargets : AdminReject(w)
    \/ Respond

Spec == Init /\ [][Next]_vars

\* ------------------------------------------- failing notification inserts
\* PATCH /:id/status when prisma.notification.create rejects: the booking
\* is updated and booking:status emitted, then the error handler answers
StatusNotifyFails(r) ==
    /\ Quiet
    /\ r \in InFlight /\ r.kind = "patch"
    /\ r.target \in DOMAIN notificationTypes
    /\ bookings' = [bookings EXCEPT ![r.booking] = ApplyUpdate(@, r.upd)]
    /\ End(r)
    /\ resp' = Response("patch", r.actor, r.booking, r.target, r.price,
                        "INTERNAL_SERVER_ERROR", r.snap)
    /\ notified' = {}
    /\ Emit({Event(BookingRoom(r.booking), "booking:status",
                   Some(r.target))})
    /\ UNCHANGED <<retryVars, authVars, workers, payments, reviews, ratings>>

\* POST /:id/accept when prisma.notification.create rejects: the booking is
\* updated, the participant added and booking:accepted emitted, then the
\* error handler answers
AcceptNotifyFails(r) ==
    LET b == r.booking
        row == ApplyUpdate(bookings[b], r.upd)
    IN /\ Quiet
       /\ r \in InFlight /\ r.kind = "accept"
       /\ bookings' = [bookings EXCEPT ![b] =
              [row EXCEPT !.participants =
                            IF row.conversation THEN @ \cup {r.actor} ELSE @]]
       /\ End(r)
       /\ resp' = Response("accept", r.actor, b, r.target, r.price,
                           "INTERNAL_SERVER_ERROR", r.snap)
       /\ notified' = {}
       /\ Emit({Event(UserRoom(r.snap.customerId), "booking:accepted",
                      None)})
       /\ UNCHANGED <<retryVars, authVars, workers, payments, reviews,
                      ratings>>

\* the handlers, with a database whose notification inserts may fail
NextFaults ==
    \/ Next
    \/ \E r \in InFlight : StatusNotifyFails(r)
    \/ \E r \in InFlight : AcceptNotifyFails(r)

SpecFaults == Init /\ [][NextFaults]_vars

\* ------------------------------------------------ POST /payments/initiate
\* initiatePaymentSchema: the method, and whether a phone was sent
MethodInputs == {"CASH", "MTN_MOMO", "VODAFONE_CASH"}
PhoneInputs == {FALSE, TRUE}

PayRequest(actor, b, method, phone, amount, snap) ==
    [kind |-> "pay", actor |-> actor, booking |-> b, method |-> method,
     phone |-> phone, amount |-> amount, snap |-> snap]

PayResponse(actor, b, method, phone, code, snap) ==
    [kind |-> "pay", actor |-> actor, booking |-> b, method |-> method,
     phone |-> phone, code |-> code, snap |-> snap]

\* booking.finalPrice || booking.estimatedPrice
Amount(booking) ==
    IF booking.finalPrice # None /\ booking.finalPrice[1] # 0
    THEN booking.finalPrice
    ELSE booking.estimatedPrice

\* the checks on the booking read with its payment: the error the handler
\* throws before it writes, or "OK"
InitiateCheck(booking, payment, actor) ==
    CASE ~booking.exists -> "NOT_FOUND"
      [] booking.customerId # actor -> "FORBIDDEN"
      [] booking.status # "COMPLETED" -> "NOT_COMPLETED"
      [] payment.exists /\ payment.status = "COMPLETED" -> "ALREADY_PAID"
      [] Amount(booking) = None \/ Amount(booking) = Some(0) -> "NO_PRICE"
      [] OTHER -> "OK"

\* prisma.payment.upsert({ where: { bookingId }, create, update })
Upsert(payment, method, amount) ==
    IF payment.exists
    THEN [payment EXCEPT
            !.method = method,
            !.status = IF method = "CASH" THEN "COMPLETED" ELSE "PROCESSING",
            !.paidAt = IF method = "CASH" THEN Some(DateNow) ELSE None]
    ELSE [exists |-> TRUE, amount |-> amount, method |-> method,
          status |-> IF method = "CASH" THEN "COMPLETED" ELSE "PROCESSING",
          paidAt |-> IF method = "CASH" THEN Some(DateNow) ELSE None,
          providerRef |-> None]

\* the booking lookup and the checks
PayRead(actor, b, method, phone) ==
    LET booking == bookings[b]
        check == InitiateCheck(booking, payments[b], actor)
    IN /\ Quiet /\ Room
       /\ IF check = "OK"
          THEN /\ Start(PayRequest(actor, b, method, phone, Amount(booking),
                                   booking))
               /\ UNCHANGED <<resp, notified, emitted>>
          ELSE /\ Fail(PayResponse(actor, b, method, phone, check, booking))
               /\ UNCHANGED inflight
       /\ UNCHANGED <<retryVars, authVars, bookings, workers, payments,
                      reviews, ratings>>

\* the upsert; for CASH the worker's event and notification; for mobile
\* money the phone check; res.json
PayWrite(r) ==
    LET b == r.booking
        cash == r.method = "CASH"
        told == cash /\ r.snap.workerId # Null
        wu == WorkerUser[r.snap.workerId]
    IN /\ Quiet
       /\ r \in InFlight /\ r.kind = "pay"
       /\ payments' = [payments EXCEPT ![b] = Upsert(@, r.method, r.amount)]
       /\ End(r)
       /\ IF ~cash /\ ~r.phone
          THEN /\ resp' = PayResponse(r.actor, b, r.method, r.phone,
                                      "PHONE_REQUIRED", r.snap)
               /\ notified' = {}
               /\ Emit({})
          ELSE /\ Succeed(PayResponse(r.actor, b, r.method, r.phone, "OK",
                                      r.snap),
                          IF told
                          THEN {Notification(wu, "PAYMENT_RECEIVED", b)}
                          ELSE {})
               /\ Emit(IF told
                       THEN {Event(UserRoom(wu), "payment:completed", None)}
                       ELSE {})
       /\ UNCHANGED <<retryVars, authVars, bookings, workers, reviews,
                      ratings>>

\* ---------------------------------------------- POST /payments/webhook/mtn
\* the provider's transaction ids, the statuses it reports, and the
\* reference it sends back as externalId
TransactionIds == {"MTN_REF_001", "MTN_REF_009"}
WebhookStatuses == {"SUCCESSFUL", "FAILED", "PENDING"}
ExternalIds == BookingIds

WebhookResponse(transactionId, status, externalId) ==
    [kind |-> "webhook", transactionId |-> transactionId, status |-> status,
     externalId |-> externalId, code |-> "OK"]

\* prisma.payment.findFirst({ where: { providerRef: transactionId } })
FindByProviderRef(transactionId) ==
    {b \in BookingIds : /\ payments[b].exists
                        /\ payments[b].providerRef = Some(transactionId)}

\* the lookup by providerRef, the update, the events and the worker's
\* notification, 200 { received: true }
Webhook(transactionId, status, externalId) ==
    LET found == FindByProviderRef(transactionId)
        b == CHOOSE x \in found : TRUE
        wid == bookings[b].workerId
    IN /\ Quiet
       /\ resp' = WebhookResponse(transactionId, status, externalId)
       /\ IF found = {}
          THEN /\ UNCHANGED payments
               /\ notified' = {}
               /\ Emit({})
          ELSE CASE status = "SUCCESSFUL" ->
                      /\ payments' = [payments EXCEPT ![b] =
                             [@ EXCEPT !.status = "COMPLETED",
                                       !.paidAt = Some(DateNow)]]
                      /\ notified' =
                           IF wid # Null
                           THEN {Notification(WorkerUser[wid],
                                              "PAYMENT_RECEIVED", b)}
                           ELSE {}
                      /\ Emit((IF wid # Null
                               THEN {Event(UserRoom(WorkerUser[wid]),
                                           "payment:completed", None)}
                               ELSE {})
                              \cup {Event(UserRoom(bookings[b].customerId),
                                          "payment:success", None)})
                 [] status = "FAILED" ->
                      /\ payments' = [payments EXCEPT ![b] =
                             [@ EXCEPT !.status = "FAILED"]]
                      /\ notified' = {}
                      /\ Emit({Event(UserRoom(bookings[b].customerId),
                                     "payment:failed", None)})
                 [] OTHER ->
                      /\ UNCHANGED payments
                      /\ notified' = {}
                      /\ Emit({})
       /\ UNCHANGED <<retryVars, authVars, bookings, workers, inflight,
                      reviews, ratings>>

\* ------------------------------------------------------- POST /reviews
\* createReviewSchema: rating is an integer from 1 to 5
RatingInputs == {0, 2, 5}
RatingOk(rating) == rating >= 1 /\ rating <= 5

\* workerReviews is the aggregate once the handler has read it
ReviewRequest(actor, b, rating, snap, step, workerReviews) ==
    [kind |-> "review", actor |-> actor, booking |-> b, rating |-> rating,
     snap |-> snap, step |-> step, workerReviews |-> workerReviews]

ReviewResponse(actor, b, rating, code, snap) ==
    [kind |-> "review", actor |-> actor, booking |-> b, rating |-> rating,
     code |-> code, snap |-> snap]

\* the parse and the checks on the booking read with its review: the error
\* the handler throws before it writes, or "OK"
ReviewCheck(booking, review, actor, rating) ==
    CASE ~RatingOk(rating) -> "VALIDATION_ERROR"
      [] ~booking.exists -> "NOT_FOUND"
      [] booking.customerId # actor -> "FORBIDDEN"
      [] booking.status # "COMPLETED" -> "NOT_COMPLETED"
      [] review.exists -> "ALREADY_REVIEWED"
      [] booking.workerId = Null -> "NO_WORKER"
      [] OTHER -> "OK"

ReviewRead(actor, b, rating) ==
    LET booking == bookings[b]
        check == ReviewCheck(booking, reviews[b], actor, rating)
    IN /\ Quiet /\ Room
       /\ IF check = "OK"
          THEN /\ Start(ReviewRequest(actor, b, rating, booking, "create",
                                      NoRating))
               /\ UNCHANGED <<resp, notified, emitted>>
          ELSE /\ Fail(ReviewResponse(actor, b, rating, check, booking))
               /\ UNCHANGED inflight
       /\ UNCHANGED <<retryVars, authVars, bookings, workers, payments,
                      reviews, ratings>>

\* a variant of Duplicate for a Review table without the unique bookingId
DuplicateNever(b) == FALSE

\* Review.bookingId is unique (Booking.review is one-to-one): the insert of
\* a second row for booking b is refused with P2002
Duplicate(b) == reviews[b].exists

\* prisma.review.create
ReviewCreate(r) ==
    LET b == r.booking IN
    /\ Quiet
    /\ r \in InFlight /\ r.kind = "review" /\ r.step = "create"
    /\ IF Duplicate(b)
       THEN /\ End(r)
            /\ Fail(ReviewResponse(r.actor, b, r.rating, "DUPLICATE_ENTRY",
                                   r.snap))
            /\ UNCHANGED reviews
       ELSE /\ reviews' = [reviews EXCEPT ![b] =
                   [exists |-> TRUE, customerId |-> r.actor,
                    workerId |-> r.snap.workerId,
                    rating |-> Some(r.rating)]]
            /\ inflight' = (inflight (-) SetToBag({r}))
                             (+) SetToBag({[r EXCEPT !.step = "aggregate"]})
            /\ UNCHANGED <<resp, notified, emitted>>
    /\ UNCHANGED <<retryVars, authVars, bookings, workers, payments, ratings>>

\* the reviews of worker w
ReviewsOf(w) ==
    {b \in DOMAIN reviews : reviews[b].exists /\ reviews[b].workerId = w}

RECURSIVE SumRatings(_)
SumRatings(bs) ==
    IF bs = {} THEN 0
    ELSE LET b == CHOOSE x \in bs : TRUE
         IN reviews[b].rating[1] + SumRatings(bs \ {b})

\* prisma.review.aggregate({ where: { workerId }, _avg, _count }), with
\* `_avg.rating || 0`; the average in tenths
Aggregate(w) ==
    LET n == Cardinality(ReviewsOf(w)) IN
    [averageRating |-> IF n = 0 THEN 0
                       ELSE (10 * SumRatings(ReviewsOf(w))) \div n,
     totalReviews |-> n]

\* prisma.review.aggregate: the handler reads the worker's statistics
ReviewAggregate(r) ==
    /\ Quiet
    /\ r \in InFlight /\ r.kind = "review" /\ r.step = "aggregate"
    /\ inflight' = (inflight (-) SetToBag({r}))
                     (+) SetToBag({[r EXCEPT
                            !.step = "update",
                            !.workerReviews = Aggregate(r.snap.workerId)]})
    /\ UNCHANGED <<retryVars, authVars, bookings, workers, resp, notified,
                   emitted,
                   payments,
                   reviews, ratings>>

\* prisma.worker.update with the statistics read, the worker's event and
\* notification, 201
ReviewUpdate(r) ==
    LET w == r.snap.workerId IN
    /\ Quiet
    /\ r \in InFlight /\ r.kind = "review" /\ r.step = "update"
    /\ ratings' = [ratings EXCEPT ![w] = r.workerReviews]
    /\ End(r)
    /\ Succeed(ReviewResponse(r.actor, r.booking, r.rating, "OK", r.snap),
               {Notification(WorkerUser[w], "REVIEW_RECEIVED", r.booking)})
    /\ Emit({Event(UserRoom(WorkerUser[w]), "review:new", None)})
    /\ UNCHANGED <<retryVars, authVars, bookings, workers, payments, reviews>>

\* ------------------------------------- a booking's payment and review
\* a booking in progress: created by uc for w1, accepted, en route, started
InProgressBooking ==
    [NoBooking EXCEPT !.exists = TRUE, !.customerId = "uc",
       !.workerId = "w1", !.categoryId = "Plumber",
       !.status = "IN_PROGRESS", !.estimatedPrice = Some(50),
       !.startedAt = Some(DateNow), !.conversation = TRUE,
       !.participants = {"uc", "uw1"}]

\* the seed's first booking: COMPLETED at 55, reviewed and paid by MTN MoMo
SeedBooking ==
    [NoBooking EXCEPT !.exists = TRUE, !.customerId = "uc",
       !.workerId = "w1", !.categoryId = "Plumber", !.status = "COMPLETED",
       !.estimatedPrice = Some(50), !.finalPrice = Some(55),
       !.startedAt = Some(DateNow), !.completedAt = Some(DateNow)]

SeedPayment ==
    [exists |-> TRUE, amount |-> Some(55), method |-> "MTN_MOMO",
     status |-> "COMPLETED", paidAt |-> Some(DateNow),
     providerRef |-> Some("MTN_REF_001")]

SeedReview ==
    [exists |-> TRUE, customerId |-> "uc", workerId |-> "w1",
     rating |-> Some(5)]

\* the seed's first worker: averageRating 4.8, totalReviews 89
SeedRating == [averageRating |-> 48, totalReviews |-> 89]

InitPay ==
    /\ \/ /\ bookings = [b \in BookingIds |-> InProgressBooking]
          /\ payments = [b \in BookingIds |-> NoPayment]
          /\ reviews = [b \in BookingIds |-> NoReview]
          /\ ratings = [w \in Workers |-> NoRating]
       \/ /\ bookings = [b \in BookingIds |-> SeedBooking]
          /\ payments = [b \in BookingIds |-> SeedPayment]
          /\ reviews = [b \in BookingIds |-> SeedReview]
          /\ ratings = [w \in Workers |->
                          IF w = "w1" THEN SeedRating ELSE NoRating]
    /\ workers = SeedVerification
    /\ inflight = EmptyBag
    /\ resp = NoResponse
    /\ notified = {}
    /\ emitted = {}
    /\ InitAuthIdle
    /\ InitRetryIdle

\* the requests on a booking from its service to its payment and review
NextPay ==
    \/ \E actor \in Users, b \in BookingIds,
          target \in TargetInputs, price \in PriceInputs :
            PatchRead(actor, b, target, price)
    \/ \E r \in InFlight : PatchUpdate(r)
    \/ \E b \in BookingIds : AdminCancel(b)
    \/ \E actor \in Users, b \in BookingIds,
          method \in MethodInputs, phone \in PhoneInputs :
            PayRead(actor, b, method, phone)
    \/ \E r \in InFlight : PayWrite(r)
    \/ \E t \in TransactionIds, st \in WebhookStatuses, e \in ExternalIds :
            Webhook(t, st, e)
    \/ \E actor \in Users, b \in BookingIds, rating \in RatingInputs :
            ReviewRead(actor, b, rating)
    \/ \E r \in InFlight : ReviewCreate(r)
    \/ \E r \in InFlight : ReviewAggregate(r)
    \/ \E r \in InFlight : ReviewUpdate(r)
    \/ Respond

SpecPay == InitPay /\ [][NextPay]_vars

\* ------------------------------------------- a worker's reviews
\* two bookings of customer uc, both done by worker w1 and COMPLETED
ReviewBookingIds == {"b1", "b2"}

CompletedBooking ==
    [InProgressBooking EXCEPT !.status = "COMPLETED",
       !.finalPrice = Some(55), !.completedAt = Some(DateNow)]

InitReview ==
    /\ bookings = [b \in ReviewBookingIds |-> CompletedBooking]
    /\ payments = [b \in ReviewBookingIds |-> NoPayment]
    /\ reviews = [b \in ReviewBookingIds |-> NoReview]
    /\ ratings = [w \in Workers |-> NoRating]
    /\ workers = SeedVerification
    /\ inflight = EmptyBag
    /\ resp = NoResponse
    /\ notified = {}
    /\ emitted = {}
    /\ InitAuthIdle
    /\ InitRetryIdle

\* the review requests on the two bookings
NextReview ==
    \/ \E actor \in Users, b \in ReviewBookingIds, rating \in RatingInputs :
            ReviewRead(actor, b, rating)
    \/ \E r \in InFlight : ReviewCreate(r)
    \/ \E r \in InFlight : ReviewAggregate(r)
    \/ \E r \in InFlight : ReviewUpdate(r)
    \/ Respond

SpecReview == InitReview /\ [][NextReview]_vars

\* ------------------------------------------------- authentication
\* the phones that requests name, by the user they belong to; "bad" is not
\* a valid Ghana phone number
AuthUsers == {"uc", "ua"}
PhoneInputs2 == AuthUsers \cup {"bad"}
\* what generateOtp can return and what a client can send
Codes == {"123456", "654321"}
\* the OtpCode rows the model lets the table hold
MaxOtps == 2

OtpCode(u, code) ==
    [userId |-> u, code |-> code, verified |-> FALSE, expired |-> FALSE]

AuthRequest(kind, u, code, status, otp, step) ==
    [kind |-> kind, user |-> u, otpCode |-> code, status |-> status,
     otp |-> otp, step |-> step]

\* a response of the authentication service: the tokens it carries, the
\* user status the handler read, the OtpCode row it matched (0 for none)
AuthResponse(kind, u, code, result, tokens, status, otp) ==
    [kind |-> kind, user |-> u, otpCode |-> code, code |-> result,
     tokens |-> tokens, status |-> status, otp |-> otp]

\* the sendOtp calls that have still to insert their row
Sending ==
    {r \in InFlight : r.kind = "sendOtp"}

RECURSIVE Copies(_)
Copies(rs) ==
    IF rs = {} THEN 0
    ELSE LET r == CHOOSE x \in rs : TRUE
         IN CopiesIn(r, inflight) + Copies(rs \ {r})

\* sendOtp: the phone check, the user found or created, the suspension
\* check, generateOtp
SendOtpFind(phone, code) ==
    LET status == IF users[phone] = "NONE" THEN "PENDING_VERIFICATION"
                  ELSE users[phone]
    IN /\ Quiet /\ Room
       /\ Len(otps) + Copies(Sending) < MaxOtps
       /\ IF phone = "bad"
          THEN /\ Fail(AuthResponse("sendOtp", phone, Null, "INVALID_PHONE",
                                    {}, Null, 0))
               /\ UNCHANGED <<users, inflight>>
          ELSE /\ users' = [users EXCEPT ![phone] = status]
               /\ IF status = "SUSPENDED"
                  THEN /\ Fail(AuthResponse("sendOtp", phone, Null,
                                            "ACCOUNT_SUSPENDED", {}, status,
                                            0))
                       /\ UNCHANGED inflight
                  ELSE /\ Start(AuthRequest("sendOtp", phone, code, status,
                                            0, "invalidate"))
                       /\ UNCHANGED <<resp, notified, emitted>>
       /\ UNCHANGED <<retryVars, bookings, workers, payments, reviews,
                      ratings, otps,
                      nodeEnv, issued>>

\* prisma.otpCode.updateMany({ where: { userId, verified: false },
\*                             data: { verified: true } })
Invalidate(table, u) ==
    [i \in DOMAIN table |->
       IF table[i].userId = u /\ ~table[i].verified
       THEN [table[i] EXCEPT !.verified = TRUE]
       ELSE table[i]]

\* a variant of Invalidate that leaves the table alone
InvalidateNothing(table, u) == table

SendOtpInvalidate(r) ==
    /\ Quiet
    /\ r \in InFlight /\ r.kind = "sendOtp" /\ r.step = "invalidate"
    /\ otps' = Invalidate(otps, r.user)
    /\ inflight' = (inflight (-) SetToBag({r}))
                     (+) SetToBag({[r EXCEPT !.step = "create"]})
    /\ UNCHANGED <<retryVars, bookings, workers, resp, notified, emitted,
                   payments,
                   reviews, ratings, users, nodeEnv, issued>>

\* prisma.otpCode.create, the result
SendOtpCreate(r) ==
    /\ Quiet
    /\ r \in InFlight /\ r.kind = "sendOtp" /\ r.step = "create"
    /\ otps' = Append(otps, OtpCode(r.user, r.otpCode))
    /\ End(r)
    /\ resp' = AuthResponse("sendOtp", r.user, Null, "OK", {}, r.status, 0)
    /\ notified' = {}
    /\ Emit({})
    /\ UNCHANGED <<retryVars, bookings, workers, payments, reviews,
                   ratings, users,
                   nodeEnv, issued>>

\* a variant of isDevBypass that does not look at NODE_ENV
isDevBypassAnywhere(code) == code = "123456"

\* env.NODE_ENV === 'development' && input.code === '123456'
isDevBypass(code) == nodeEnv = "development" /\ code = "123456"

\* prisma.otpCode.findFirst({ where: { userId, code, verified: false,
\*                                     expiresAt: { gt: new Date() } } }):
\* the rows it can return
ValidOtps(u, code) ==
    {i \in DOMAIN otps : /\ otps[i].userId = u
                         /\ otps[i].code = code
                         /\ ~otps[i].verified
                         /\ ~otps[i].expired}

\* verifyOtp: the user lookup and the OTP lookup
VerifyOtpFind(phone, code) ==
    /\ Quiet /\ Room
    /\ IF users[phone] = "NONE"
       THEN /\ Fail(AuthResponse("verifyOtp", phone, code, "USER_NOT_FOUND",
                                 {}, "NONE", 0))
            /\ UNCHANGED inflight
       ELSE \/ /\ ValidOtps(phone, code) = {}
               /\ IF isDevBypass(code)
                  THEN /\ Start(AuthRequest("verifyOtp", phone, code,
                                            users[phone], 0, "update"))
                       /\ UNCHANGED <<resp, notified, emitted>>
                  ELSE /\ Fail(AuthResponse("verifyOtp", phone, code,
                                            "INVALID_OTP", {}, users[phone],
                                            0))
                       /\ UNCHANGED inflight
            \/ \E i \in ValidOtps(phone, code) :
                 /\ Start(AuthRequest("verifyOtp", phone, code, users[phone],
                                      i, "update"))
                 /\ UNCHANGED <<resp, notified, emitted>>
    /\ UNCHANGED <<retryVars, bookings, workers, payments, reviews,
                   ratings, authVars>>

\* verifyOtp: the OTP marked verified, the user updated from the row read
\* before, the tokens signed
VerifyOtpUpdate(r) ==
    /\ Quiet
    /\ r \in InFlight /\ r.kind = "verifyOtp"
    /\ otps' = IF r.otp # 0 THEN [otps EXCEPT ![r.otp].verified = TRUE]
               ELSE otps
    /\ users' = IF r.status = "PENDING_VERIFICATION"
                THEN [users EXCEPT ![r.user] = "ACTIVE"]
                ELSE users
    /\ issued' = issued \cup {r.user}
    /\ End(r)
    /\ resp' = AuthResponse("verifyOtp", r.user, r.otpCode, "OK",
                            {"access", "refresh"}, r.status, r.otp)
    /\ notified' = {}
    /\ Emit({})
    /\ UNCHANGED <<retryVars, bookings, workers, payments, reviews,
                   ratings, nodeEnv>>

\* POST /admin/auth/otp/verify: the user lookup with the role check and the
\* OTP lookup
AdminVerifyOtpFind(phone, code) ==
    /\ Quiet /\ Room
    /\ IF users[phone] = "NONE" \/ Role[phone] # "ADMIN"
       THEN /\ Fail(AuthResponse("adminVerifyOtp", phone, code, "FORBIDDEN",
                                 {}, users[phone], 0))
            /\ UNCHANGED inflight
       ELSE \/ /\ ValidOtps(phone, code) = {}
               /\ Fail(AuthResponse("adminVerifyOtp", phone, code,
                                    "INVALID_OTP", {}, users[phone], 0))
               /\ UNCHANGED inflight
            \/ \E i \in ValidOtps(phone, code) :
                 /\ Start(AuthRequest("adminVerifyOtp", phone, code,
                                      users[phone], i, "update"))
                 /\ UNCHANGED <<resp, notified, emitted>>
    /\ UNCHANGED <<retryVars, bookings, workers, payments, reviews,
                   ratings, authVars>>

\* the OTP marked verified, lastLoginAt, the access token
AdminVerifyOtpUpdate(r) ==
    /\ Quiet
    /\ r \in InFlight /\ r.kind = "adminVerifyOtp"
    /\ otps' = [otps EXCEPT ![r.otp].verified = TRUE]
    /\ End(r)
    /\ resp' = AuthResponse("adminVerifyOtp", r.user, r.otpCode, "OK",
                            {"access"}, r.status, r.otp)
    /\ notified' = {}
    /\ Emit({})
    /\ UNCHANGED <<retryVars, bookings, workers, payments, reviews,
                   ratings, users,
                   nodeEnv, issued>>

\* the tokens a client can present: a refresh token signed for a user, or
\* anything else
RefreshInputs == AuthUsers \cup {"bad"}

\* refreshAccessToken
RefreshAccessToken(token) ==
    /\ Quiet
    /\ token \in issued \cup {"bad"}
    /\ resp' =
         CASE token = "bad" ->
                AuthResponse("refresh", Null, Null, "INVALID_TOKEN", {},
                             Null, 0)
           [] users[token] \in {"NONE", "SUSPENDED"} ->
                AuthResponse("refresh", token, Null, "UNAUTHORIZED", {},
                             users[token], 0)
           [] OTHER ->
                AuthResponse("refresh", token, Null, "OK", {"access"},
                             users[token], 0)
    /\ notified' = {}
    /\ Emit({})
    /\ UNCHANGED <<retryVars, bookings, workers, inflight, payments,
                   reviews, ratings,
                   authVars>>

\* PATCH /admin/users/:id { status }, POST /admin/workers/:id/suspend
StatusInputs == {"ACTIVE", "SUSPENDED"}

AdminSetStatus(u, status) ==
    /\ Quiet
    /\ IF users[u] = "NONE"
       THEN /\ Fail(AuthResponse("setStatus", u, Null, "NOT_FOUND", {},
                                 "NONE", 0))
            /\ UNCHANGED users
       ELSE /\ users' = [users EXCEPT ![u] = status]
            /\ resp' = AuthResponse("setStatus", u, Null, "OK", {}, status,
                                    0)
            /\ notified' = {}
            /\ Emit({})
    /\ UNCHANGED <<retryVars, bookings, workers, inflight, payments,
                   reviews, ratings,
                   otps, nodeEnv, issued>>

\* OTP_VALIDITY_MINUTES have passed since row i was created
Expire(i) ==
    /\ Quiet
    /\ ~otps[i].expired
    /\ otps' = [otps EXCEPT ![i].expired = TRUE]
    /\ UNCHANGED <<retryVars, bookings, workers, inflight, resp, notified,
                   emitted,
                   payments, reviews, ratings, users, nodeEnv, issued>>

\* the admin is registered, uc's phone is not yet; NODE_ENV is set when the
\* process starts
InitAuth ==
    /\ bookings = [b \in BookingIds |-> NoBooking]
    /\ workers = SeedVerification
    /\ payments = [b \in BookingIds |-> NoPayment]
    /\ reviews = [b \in BookingIds |-> NoReview]
    /\ ratings = [w \in Workers |-> NoRating]
    /\ inflight = EmptyBag
    /\ resp = NoResponse
    /\ notified = {}
    /\ emitted = {}
    /\ users = [u \in Users |-> IF u = "uc" THEN "NONE" ELSE "ACTIVE"]
    /\ otps = <<>>
    /\ nodeEnv \in {"development", "production"}
    /\ issued = {}
    /\ InitRetryIdle

NextAuth ==
    \/ \E phone \in PhoneInputs2, code \in Codes : SendOtpFind(phone, code)
    \/ \E r \in InFlight : SendOtpInvalidate(r)
    \/ \E r \in InFlight : SendOtpCreate(r)
    \/ \E phone \in AuthUsers, code \in Codes : VerifyOtpFind(phone, code)
    \/ \E r \in InFlight : VerifyOtpUpdate(r)
    \/ \E phone \in AuthUsers, code \in Codes :
            AdminVerifyOtpFind(phone, code)
    \/ \E r \in InFlight : AdminVerifyOtpUpdate(r)
    \/ \E token \in RefreshInputs : RefreshAccessToken(token)
    \/ \E u \in AuthUsers, status \in StatusInputs : AdminSetStatus(u, status)
    \/ \E i \in DOMAIN otps : Expire(i)
    \/ Respond

SpecAuth == InitAuth /\ [][NextAuth]_vars

\* ------------------------------------------------------------- retry
\* the options a caller passes
MaxAttempts == 3
MaxAttemptsInputs == 0 .. MaxAttempts
DelayMsInputs == {500, 1000}
MaxDelayMsInputs == {1500, 30000}

RECURSIVE Pow(_, _)
\* Math.pow(base, n) for a natural n
Pow(base, n) == IF n = 0 THEN 1 ELSE base * Pow(base, n - 1)

\* Math.min
Min(a, b) == IF a <= b THEN a ELSE b

\* a variant of Delay without the cap
DelayUncapped(k) == options.delayMs * Pow(2, k - 1)

\* Math.min(delayMs * Math.pow(2, attempt - 1), maxDelayMs)
Delay(k) == Min(options.delayMs * Pow(2, k - 1), options.maxDelayMs)

CallEvent(k, ok) == [type |-> "call", attempt |-> k, ok |-> ok]
OnRetryEvent(k, error) == [type |-> "onRetry", attempt |-> k, error |-> error]
SleepEvent(k, ms) == [type |-> "sleep", attempt |-> k, ms |-> ms]

\* everything but the call of retry stays as it is
RetryOnly ==
    UNCHANGED <<bookings, workers, inflight, resp, notified, emitted,
                payments, reviews, ratings, authVars>>

\* `return await fn()` when fn's promise resolves: the result of call k is k
FnResolves ==
    /\ pc = "loop" /\ attempt <= options.maxAttempts
    /\ calls' = Append(calls, CallEvent(attempt, TRUE))
    /\ outcome' = <<"returned", attempt>>
    /\ pc' = "done"
    /\ UNCHANGED <<options, attempt, lastError>>
    /\ RetryOnly

\* the catch block when fn's promise rejects: the error of call k is k;
\* onRetry, when given, returns or throws
FnRejects ==
    /\ pc = "loop" /\ attempt <= options.maxAttempts
    /\ lastError' = attempt
    /\ IF attempt = options.maxAttempts
       THEN /\ calls' = Append(calls, CallEvent(attempt, FALSE))
            /\ outcome' = <<"thrown", attempt>>
            /\ pc' = "done"
       ELSE \/ /\ calls' =
                    (IF options.onRetry
                     THEN calls \o <<CallEvent(attempt, FALSE),
                                     OnRetryEvent(attempt, attempt)>>
                     ELSE Append(calls, CallEvent(attempt, FALSE)))
                    \o <<SleepEvent(attempt, Delay(attempt))>>
               /\ pc' = "sleeping"
               /\ UNCHANGED outcome
            \/ /\ options.onRetry
               /\ calls' = calls \o <<CallEvent(attempt, FALSE),
                                        OnRetryEvent(attempt, attempt)>>
               /\ outcome' = <<"onRetryThrew", attempt>>
               /\ pc' = "done"
    /\ UNCHANGED <<options, attempt>>
    /\ RetryOnly

\* the timer of sleep fires, attempt++
Wake ==
    /\ pc = "sleeping"
    /\ attempt' = attempt + 1
    /\ pc' = "loop"
    /\ UNCHANGED <<options, lastError, calls, outcome>>
    /\ RetryOnly

\* the loop ends without a call left: throw lastError
LoopEnds ==
    /\ pc = "loop" /\ attempt > options.maxAttempts
    /\ outcome' = <<"thrown", lastError>>
    /\ pc' = "done"
    /\ UNCHANGED <<options, attempt, lastError, calls>>
    /\ RetryOnly

\* retry(fn, options) has been called: attempt = 1
InitRetry ==
    /\ bookings = [b \in BookingIds |-> NoBooking]
    /\ workers = SeedVerification
    /\ payments = [b \in BookingIds |-> NoPayment]
    /\ reviews = [b \in BookingIds |-> NoReview]
    /\ ratings = [w \in Workers |-> NoRating]
    /\ inflight = EmptyBag
    /\ resp = NoResponse
    /\ notified = {}
    /\ emitted = {}
    /\ users = [u \in Users |-> "ACTIVE"]
    /\ otps = <<>>
    /\ nodeEnv = "development"
    /\ issued = {}
    /\ options \in [maxAttempts : MaxAttemptsInputs, delayMs : DelayMsInputs,
                    maxDelayMs : MaxDelayMsInputs, onRetry : BOOLEAN]
    /\ attempt = 1
    /\ pc = "loop"
    /\ lastError = 0
    /\ calls = <<>>
    /\ outcome = <<>>

NextRetry ==
    \/ FnResolves
    \/ FnRejects
    \/ Wake
    \/ LoopEnds

SpecRetry == InitRetry /\ [][NextRetry]_vars

\* fn's promise settles and the timers fire
SpecRetryFair == SpecRetry /\ WF_vars(NextRetry)

\* ---------------------------------------------------------------- claims
\* the transition table of the specification, as (from, to) pairs
TransitionTable ==
    {<<"PENDING", "ACCEPTED">>, <<"PENDING", "CANCELLED">>,
     <<"ACCEPTED", "WORKER_EN_ROUTE">>, <<"ACCEPTED", "CANCELLED">>,
     <<"WORKER_EN_ROUTE", "IN_PROGRESS">>, <<"WORKER_EN_ROUTE", "CANCELLED">>,
     <<"IN_PROGRESS", "COMPLETED">>, <<"IN_PROGRESS", "CANCELLED">>}

Terminal == {"COMPLETED", "CANCELLED"}
WorkerUsers == {WorkerUser[w] : w \in Workers}

\* a body the request schema admits: one of its five targets, and a positive
\* finalPrice when one is given
Admitted(target, price) ==
    /\ target \in {"ACCEPTED", "WORKER_EN_ROUTE", "IN_PROGRESS", "COMPLETED",
                   "CANCELLED"}
    /\ (price = None \/ price[1] > 0)

\* the status update being answered asked for a pair (status, target) of an
\* existing booking
Asked(r) == r.kind = "patch" /\ r.snap.exists
Pair(r) == <<r.snap.status, r.target>>

\* the update was refused with `code` and the booking row is as it was
Refused(code) ==
    /\ resp.code = code
    /\ bookings[resp.booking] = resp.snap

\* C1 (as amended): a status update whose body the request schema admits
\* (target one of its five statuses, finalPrice positive when given) and
\* whose pair (status the handler read, target) is not in the transition
\* table fails with INVALID_STATUS_TRANSITION whoever the actor is and
\* leaves the booking row as it was; no such request ever gets as far as
\* the update.
C1_InvalidTransitionRejected ==
    /\ (/\ Asked(resp)
        /\ Admitted(resp.target, resp.price)
        /\ Pair(resp) \notin TransitionTable)
       => Refused("INVALID_STATUS_TRANSITION")
    /\ \A r \in InFlight : Asked(r) => Pair(r) \in TransitionTable

\* C1 as stated: every pair outside the table, the target PENDING included,
\* fails with INVALID_STATUS_TRANSITION.
C1_AnyPairOutsideTable ==
    (Asked(resp) /\ Pair(resp) \notin TransitionTable)
    => Refused("INVALID_STATUS_TRANSITION")

\* an admin, who owns nothing, is refused an update of a closed booking
C1_Witness ==
    /\ Asked(resp) /\ resp.actor = "ua"
    /\ resp.snap.status \in Terminal
    /\ Admitted(resp.target, resp.price)
    /\ resp.code = "INVALID_STATUS_TRANSITION"

\* C2: once a booking is COMPLETED or CANCELLED no step changes its status.
C2_TerminalIsFinal ==
    [][\A b \in BookingIds :
         (bookings[b].exists /\ bookings[b].status \in Terminal)
         => bookings'[b].status = bookings[b].status]_vars

\* C3: of the workers whose overlapping accept requests read one PENDING
\* booking without a worker exactly one succeeds: an accept that succeeds
\* finds, when it writes, that no other worker has taken the booking (the
\* others fail with NOT_AVAILABLE), so the last workerId is the winner's.
C3_OneClaimWins ==
    [][(/\ resp'.kind = "accept" /\ resp'.code = "OK"
        /\ resp'.snap.status = "PENDING"
        /\ resp'.snap.workerId = Null)
       => bookings[resp'.booking].workerId
            \in {Null, WorkerOfUser(resp'.actor)}]_vars

\* C4: a workerId that is set is never changed to another worker or to null.
C4_WorkerIdImmutable ==
    [][\A b \in BookingIds :
         (bookings[b].exists /\ bookings[b].workerId # Null)
         => bookings'[b].workerId = bookings[b].workerId]_vars

\* C5 (as amended): a booking without a worker is PENDING or CANCELLED.
C5_NoWorkerPendingOrCancelled ==
    \A b \in BookingIds :
      (bookings[b].exists /\ bookings[b].workerId = Null)
      => bookings[b].status \in {"PENDING", "CANCELLED"}

\* C5 as stated: a booking without a worker is PENDING.
C5_NoWorkerPending ==
    \A b \in BookingIds :
      (bookings[b].exists /\ bookings[b].workerId = Null)
      => bookings[b].status = "PENDING"

\* a booking that a worker took through the accept shortcut
C5_Witness ==
    /\ resp.kind = "accept" /\ resp.code = "OK"
    /\ resp.snap.workerId = Null
    /\ bookings[resp.booking].status = "ACCEPTED"
    /\ bookings[resp.booking].workerId = WorkerOfUser(resp.actor)

\* C6: the CANCELLED request of the customer of a PENDING booking without a
\* worker succeeds; its update leaves the status CANCELLED and does not
\* touch workerId, which stays null when no worker took the booking in
\* between; no notification for a worker is created.
C6_CustomerCancelsUnclaimed ==
    [][(/\ Asked(resp') /\ resp'.target = "CANCELLED"
        /\ Admitted(resp'.target, resp'.price)
        /\ resp'.actor = resp'.snap.customerId
        /\ resp'.snap.status = "PENDING"
        /\ resp'.snap.workerId = Null)
       => /\ resp'.code = "OK"
          /\ bookings'[resp'.booking].status = "CANCELLED"
          /\ bookings'[resp'.booking].workerId
               = bookings[resp'.booking].workerId
          /\ (bookings[resp'.booking].workerId = Null
              => bookings'[resp'.booking].workerId = Null)
          /\ \A n \in notified' : n.userId \notin WorkerUsers]_vars

\* the customer cancelled the booking before any worker took it
C6_Witness ==
    /\ Asked(resp) /\ resp.target = "CANCELLED" /\ resp.code = "OK"
    /\ resp.actor = resp.snap.customerId
    /\ resp.snap.status = "PENDING"
    /\ bookings[resp.booking].status = "CANCELLED"
    /\ bookings[resp.booking].workerId = Null
    /\ notified = {}

\* the worker the booking row names
Assigned(row, actor) ==
    row.workerId # Null /\ actor = WorkerUser[row.workerId]

\* who the authorization policy lets request a target
MayRequest(row, actor, target) ==
    IF target = "CANCELLED"
    THEN actor = row.customerId \/ Assigned(row, actor)
    ELSE Assigned(row, actor) \/ Role[actor] = "ADMIN"

\* C7: a status update succeeds only for an actor the policy admits (the
\* customer or the assigned worker for CANCELLED, the assigned worker or an
\* admin otherwise), and a request along a transition of the table by
\* anyone else fails with FORBIDDEN and leaves the booking row as it was.
C7_OnlyAuthorisedActors ==
    /\ (Asked(resp) /\ resp.code = "OK")
       => MayRequest(resp.snap, resp.actor, resp.target)
    /\ \A r \in InFlight :
         Asked(r) => MayRequest(r.snap, r.actor, r.target)
    /\ (/\ Asked(resp)
        /\ Admitted(resp.target, resp.price)
        /\ Pair(resp) \in TransitionTable
        /\ ~MayRequest(resp.snap, resp.actor, resp.target))
       => Refused("FORBIDDEN")

\* a worker asks for the next status of a booking that is another worker's
C7_Witness ==
    /\ Asked(resp) /\ resp.code = "FORBIDDEN"
    /\ resp.actor \in WorkerUsers
    /\ resp.snap.workerId # Null
    /\ ~Assigned(resp.snap, resp.actor)
    /\ Pair(resp) = <<"ACCEPTED", "WORKER_EN_ROUTE">>

\* an admin asks for a transition of the table on a booking
AdminAsked ==
    /\ Asked(resp) /\ Role[resp.actor] = "ADMIN"
    /\ Admitted(resp.target, resp.price)
    /\ Pair(resp) \in TransitionTable

C9_ClaimByStatusUpdate ==
    (/\ Asked(resp) /\ resp.target = "ACCEPTED" /\ resp.price = None
     /\ resp.snap.status = "PENDING"
     /\ resp.snap.workerId = Null
     /\ WorkerOfUser(resp.actor) # Null
     /\ workers[WorkerOfUser(resp.actor)] = "VERIFIED"
     /\ <<WorkerOfUser(resp.actor), resp.snap.categoryId>> \in Offers)
    => /\ resp.code = "OK"
       /\ bookings[resp.booking].status = "ACCEPTED"
       /\ bookings[resp.booking].workerId = WorkerOfUser(resp.actor)

\* C10: whenever a step gives a booking a worker, that worker is VERIFIED
\* and offers the booking's category at that moment.
C10_AssignedWorkerVerified ==
    [][\A b \in BookingIds :
         (/\ bookings'[b].workerId # Null
          /\ bookings'[b].workerId # bookings[b].workerId)
         => /\ workers[bookings'[b].workerId] = "VERIFIED"
            /\ <<bookings'[b].workerId, bookings'[b].categoryId>>
                 \in Offers]_vars

\* a status update was answered with success
Updated(r) == r.kind = "patch" /\ r.code = "OK"

\* C11: a transition submitted twice is applied once and its side effects
\* are produced once: whatever the interleaving, a status update that
\* succeeds and creates its notification never finds the booking already
\* in its target status.
C11_AppliedOnce ==
    [][(Updated(resp') /\ notified' # {})
       => bookings[resp'.booking].status # resp'.target]_vars

\* C12: finalPrice is written only by a successful status update to
\* COMPLETED, with the positive finalPrice of the request; an update to
\* another target leaves it alone, and a request with finalPrice <= 0 fails
\* with VALIDATION_ERROR and writes nothing.
C12_FinalPriceOnlyOnCompleted ==
    [][/\ \A b \in BookingIds :
            IF bookings[b].exists
            THEN bookings'[b].finalPrice # bookings[b].finalPrice
                 => /\ Updated(resp') /\ resp'.booking = b
                    /\ resp'.target = "COMPLETED"
                    /\ resp'.price # None /\ resp'.price[1] > 0
                    /\ bookings'[b].finalPrice = resp'.price
            ELSE bookings'[b].finalPrice = None
       /\ (resp'.kind = "patch" /\ resp'.target # "COMPLETED")
          => bookings'[resp'.booking].finalPrice
               = bookings[resp'.booking].finalPrice
       /\ (resp'.kind = "patch" /\ resp'.price # None
           /\ resp'.price[1] <= 0)
          => /\ resp'.code = "VALIDATION_ERROR"
             /\ bookings' = bookings /\ inflight' = inflight]_vars

\* a COMPLETED update stored its finalPrice of 55
C12_Witness ==
    /\ Updated(resp) /\ resp.target = "COMPLETED" /\ resp.price = Some(55)
    /\ resp.snap.finalPrice = None
    /\ bookings[resp.booking].finalPrice = Some(55)

\* C13: a booking that is IN_PROGRESS or COMPLETED has its startedAt, one
\* that is COMPLETED has its completedAt, and startedAt (completedAt) is
\* only ever written by the step that makes the booking IN_PROGRESS
\* (COMPLETED), so neither is set while the booking has only been PENDING,
\* ACCEPTED or WORKER_EN_ROUTE.
C13_Timestamps ==
    [][\A b \in BookingIds :
         /\ bookings'[b].status \in {"IN_PROGRESS", "COMPLETED"}
            => bookings'[b].startedAt # None
         /\ bookings'[b].status = "COMPLETED"
            => bookings'[b].completedAt # None
         /\ bookings'[b].startedAt # bookings[b].startedAt
            => bookings'[b].status = "IN_PROGRESS"
         /\ bookings'[b].completedAt # bookings[b].completedAt
            => bookings'[b].status = "COMPLETED"]_vars

\* a booking that went all the way to COMPLETED
C13_Witness ==
    /\ bookings["b1"].status = "COMPLETED"
    /\ bookings["b1"].startedAt # None
    /\ bookings["b1"].completedAt # None

\* C14: a status-update or accept request that has written the booking
\* reports success, also when the creation of its notification fails.
C14_SideEffectFailureSwallowed ==
    [][(resp'.kind \in {"patch", "accept"} /\ bookings' # bookings)
       => resp'.code = "OK"]_vars

\* a notification for user u about booking b was created
NotifiedAbout(u, b) ==
    \E n \in notified : n.userId = u /\ n.bookingId = b

\* C15: every successful transition creates a notification for the
\* counterparty: for the customer when the worker drove it (an accept, or a
\* status update by the assigned worker), for the assigned worker when the
\* customer cancelled.
C15_CounterpartyNotified ==
    /\ (resp.kind = "accept" /\ resp.code = "OK")
       => NotifiedAbout(resp.snap.customerId, resp.booking)
    /\ (Updated(resp) /\ Assigned(resp.snap, resp.actor))
       => NotifiedAbout(resp.snap.customerId, resp.booking)
    /\ (/\ Updated(resp) /\ resp.target = "CANCELLED"
        /\ resp.actor = resp.snap.customerId
        /\ resp.snap.workerId # Null)
       => NotifiedAbout(WorkerUser[resp.snap.workerId], resp.booking)

\* the worker's steps after the claim
ScenarioSteps ==
    {<<"ACCEPTED", "WORKER_EN_ROUTE">>, <<"WORKER_EN_ROUTE", "IN_PROGRESS">>,
     <<"IN_PROGRESS", "COMPLETED">>}

\* C16: each step of the scenario succeeds: the accept of a VERIFIED worker
\* who offers the category on a PENDING booking without a worker, then that
\* worker's updates to WORKER_EN_ROUTE, IN_PROGRESS and COMPLETED; with no
\* other request writing the booking in between, the accept leaves the
\* booking ACCEPTED with that worker, each update leaves its target status
\* and the same worker, and the COMPLETED update also sets completedAt,
\* stores the finalPrice of the request and creates the customer's
\* SERVICE_COMPLETED notification.
C16_Scenario ==
    [][/\ (/\ resp'.kind = "accept" /\ resp'.snap.exists
           /\ resp'.snap.status = "PENDING" /\ resp'.snap.workerId = Null
           /\ WorkerOfUser(resp'.actor) # Null
           /\ workers[WorkerOfUser(resp'.actor)] = "VERIFIED"
           /\ <<WorkerOfUser(resp'.actor), resp'.snap.categoryId>> \in Offers)
          => /\ resp'.code = "OK"
             /\ bookings[resp'.booking] = resp'.snap
                => /\ bookings'[resp'.booking].status = "ACCEPTED"
                   /\ bookings'[resp'.booking].workerId
                        = WorkerOfUser(resp'.actor)
       /\ (/\ Asked(resp') /\ Assigned(resp'.snap, resp'.actor)
           /\ Admitted(resp'.target, resp'.price)
           /\ Pair(resp') \in ScenarioSteps)
          => /\ resp'.code = "OK"
             /\ bookings[resp'.booking] = resp'.snap
                => /\ bookings'[resp'.booking].status = resp'.target
                   /\ bookings'[resp'.booking].workerId
                        = resp'.snap.workerId
                   /\ resp'.target = "COMPLETED"
                      => /\ bookings'[resp'.booking].completedAt # None
                         /\ resp'.price # None
                            => bookings'[resp'.booking].finalPrice
                                 = resp'.price
                         /\ Notification(resp'.snap.customerId,
                                         "SERVICE_COMPLETED", resp'.booking)
                              \in notified']_vars

\* the end of the scenario: COMPLETED by the booking's worker with
\* finalPrice 55
C16_Witness ==
    /\ Updated(resp) /\ Pair(resp) = <<"IN_PROGRESS", "COMPLETED">>
    /\ resp.price = Some(55)
    /\ bookings[resp.booking].status = "COMPLETED"
    /\ bookings[resp.booking].workerId = WorkerOfUser(resp.actor)
    /\ bookings[resp.booking].finalPrice = Some(55)
    /\ bookings[resp.booking].completedAt # None
    /\ bookings[resp.booking].startedAt # None
    /\ Notification(bookings[resp.booking].customerId, "SERVICE_COMPLETED",
                    resp.booking) \in notified

\* C17: every operation that changes a booking's status emits an event to
\* the booking's room that carries the new status.
C17_StatusEventToBookingRoom ==
    (resp.kind \in {"patch", "accept", "adminCancel"} /\ resp.code = "OK")
    => \E e \in emitted :
         /\ e.room = <<"booking", resp.booking>>
         /\ e.status = <<bookings[resp.booking].status>>

\* the step ends a payment initiation that ran its upsert
PayWrote(r) == r.kind = "pay" /\ r.code \in {"OK", "PHONE_REQUIRED"}

Paid(payment) == payment.exists /\ payment.status = "COMPLETED"

\* C18: a payment initiation writes the Payment only when, at the moment of
\* the write, the booking is COMPLETED and has no COMPLETED payment: so no
\* second initiation captures a payment already captured, and none
\* overwrites a COMPLETED payment.
C18_WriteOnlyUnpaidCompleted ==
    [][PayWrote(resp')
       => /\ bookings[resp'.booking].status = "COMPLETED"
          /\ ~Paid(payments[resp'.booking])]_vars

\* C19: every payment that a mobile-money initiation leaves PROCESSING is
\* finalized by the provider's webhook, which finds it by providerRef: so
\* for every PROCESSING payment there is a transaction id whose webhook
\* finds that payment.
C19_ProcessingIsMatched ==
    \A b \in BookingIds :
      (payments[b].exists /\ payments[b].status = "PROCESSING")
      => \E t \in TransactionIds : b \in FindByProviderRef(t)

\* C20: every booking that has a Payment or a Review is COMPLETED.
C20_PaidOrReviewedIsCompleted ==
    \A b \in BookingIds :
      (payments[b].exists \/ reviews[b].exists)
      => bookings[b].status = "COMPLETED"

\* the review requests in flight that have inserted booking b's review and
\* have not yet answered
Recomputing(b) ==
    {r \in InFlight : r.kind = "review" /\ r.booking = b /\ r.step # "create"}

\* how many of them, copies counted
RecomputingCount(b) ==
    IF Recomputing(b) = {} THEN 0
    ELSE LET r == CHOOSE x \in Recomputing(b) : TRUE
         IN IF Cardinality(Recomputing(b)) = 1
            THEN CopiesIn(r, inflight) ELSE 2

\* C21: a booking's Review is created once, by the booking's customer, and
\* never written again; only the request that created it goes on to
\* recompute the worker's rating, and it does so once: a request recomputes
\* only while it is the one request past its insert, requests get past the
\* insert only by creating the Review, and the request is finished when it
\* has recomputed.
C21_OneReviewPerBooking ==
    [][\A b \in DOMAIN reviews :
         /\ reviews'[b] # reviews[b]
            => /\ ~reviews[b].exists
               /\ reviews'[b].exists
               /\ reviews'[b].customerId = bookings[b].customerId
         /\ RecomputingCount(b)' > RecomputingCount(b)
            => ~reviews[b].exists /\ reviews'[b].exists
         /\ RecomputingCount(b) <= 1
         /\ (resp'.kind = "review" /\ resp'.booking = b /\ resp'.code = "OK")
            => RecomputingCount(b) = 1 /\ RecomputingCount(b)' = 0]_vars

\* a second request for a reviewed booking, overlapping with the first, is
\* refused at its insert
C21_Witness ==
    /\ resp.kind = "review" /\ resp.code = "DUPLICATE_ENTRY"
    /\ reviews[resp.booking].exists
    /\ reviews[resp.booking].customerId = bookings[resp.booking].customerId

\* C22: when no review request is in flight, every worker's stored
\* totalReviews is the number of that worker's Review records and the
\* stored averageRating is their average.
C22_RatingIsAggregate ==
    (inflight = EmptyBag)
    => \A w \in Workers :
         ReviewsOf(w) # {} => ratings[w] = Aggregate(w)

\* the request has just passed its checks in this step
Admitting(r) == CopiesIn(r, inflight') > CopiesIn(r, inflight)

\* C23: in development, verifyOtp with code 123456 for an existing user
\* always returns the access and refresh tokens, whatever OTP rows there
\* are; outside development, a verifyOtp with code 123456 goes on to its
\* tokens only with a row of that user found unverified, unexpired and
\* holding that code, and answers with tokens only after that.
C23_DevBypass ==
    [][/\ (/\ resp'.kind = "verifyOtp" /\ resp'.otpCode = "123456"
           /\ nodeEnv = "development" /\ resp'.status # "NONE")
          => resp'.code = "OK" /\ resp'.tokens = {"access", "refresh"}
       /\ \A r \in BagToSet(inflight') :
            (/\ r.kind = "verifyOtp" /\ r.otpCode = "123456"
             /\ nodeEnv # "development" /\ Admitting(r))
            => r.otp \in ValidOtps(r.user, "123456")
       /\ (/\ resp'.kind = "verifyOtp" /\ resp'.otpCode = "123456"
           /\ nodeEnv # "development" /\ resp'.tokens # {})
          => /\ resp'.otp # 0
             /\ \E r \in InFlight :
                  /\ r.kind = "verifyOtp" /\ r.user = resp'.user
                  /\ r.otpCode = "123456" /\ r.otp = resp'.otp]_vars

\* in development, 123456 logs a user in who has no such OTP row
C23_Witness ==
    /\ nodeEnv = "development"
    /\ resp.kind = "verifyOtp" /\ resp.otpCode = "123456"
    /\ resp.code = "OK" /\ resp.otp = 0
    /\ resp.tokens = {"access", "refresh"}

VerifyKinds == {"verifyOtp", "adminVerifyOtp"}

\* C27: outside development an OTP row authenticates at most one verify
\* call: when a call returns tokens on the strength of a row, no other call
\* has passed its check with the same row.
C27_OtpUsedOnce ==
    [][(/\ nodeEnv # "development"
        /\ resp'.kind \in VerifyKinds /\ resp'.tokens # {}
        /\ resp'.otp # 0)
       => ~\E r \in BagToSet(inflight') :
             r.kind \in VerifyKinds /\ r.otp = resp'.otp]_vars

\* the unverified OTP rows of user u
Unverified(u) ==
    {i \in DOMAIN otps : otps[i].userId = u /\ ~otps[i].verified}

\* C28: when no sendOtp is in flight, a user has at most one OTP row with
\* verified = false, and it is the last row created for that user.
C28_OneLiveOtp ==
    (Sending = {})
    => \A u \in AuthUsers :
         /\ Cardinality(Unverified(u)) <= 1
         /\ \A i \in Unverified(u), j \in DOMAIN otps :
              otps[j].userId = u => j <= i

\* C29: no response carries a token for a user whose status the handler
\* read as SUSPENDED.
C29_SuspendedGetsNoToken ==
    (resp.kind \in {"sendOtp", "verifyOtp", "refresh"}
     /\ resp.status = "SUSPENDED")
    => resp.tokens = {}

\* C24: every change of a booking's stored status goes from the status
\* stored just before the write to one the transition table allows from it.
C24_EveryWriteFollowsTable ==
    [][\A b \in BookingIds :
         (bookings[b].exists
          /\ bookings'[b].status # bookings[b].status)
         => <<bookings[b].status, bookings'[b].status>>
              \in TransitionTable]_vars

\* C25: a COMPLETED payment keeps its status, and no further
\* PAYMENT_RECEIVED notification is created for its booking.
C25_CompletedPaymentIsFinal ==
    [][\A b \in BookingIds :
         Paid(payments[b])
         => /\ payments'[b].status = "COMPLETED"
            /\ \A n \in notified' :
                 ~(n.type = "PAYMENT_RECEIVED" /\ n.bookingId = b)]_vars

\* C26: a payment initiation that ends in an error leaves the Payment
\* table as it was.
C26_FailedInitiationWritesNothing ==
    [][(resp'.kind = "pay" /\ resp'.code # "OK")
       => payments' = payments]_vars

\* the positions of the calls of fn among the calls
CallsAt == {i \in DOMAIN calls : calls[i].type = "call"}

\* the wait the specification gives after attempt k
ClaimedWait(k) ==
    LET d == options.delayMs * (2 ^ (k - 1))
    IN IF d < options.maxDelayMs THEN d ELSE options.maxDelayMs

\* what a call of retry with maxAttempts >= 1 has done so far
RetryContract ==
    /\ Cardinality(CallsAt) <= options.maxAttempts
    /\ \A i \in CallsAt :
         /\ calls[i].attempt
              = Cardinality({j \in CallsAt : j <= i})
         /\ calls[i].ok
            => /\ i = Len(calls) /\ pc = "done"
               /\ outcome = <<"returned", calls[i].attempt>>
         /\ calls[i].attempt > 1
            => /\ calls[i - 1].type = "sleep"
               /\ calls[i - 1].attempt = calls[i].attempt - 1
         /\ (/\ options.onRetry /\ ~calls[i].ok
             /\ calls[i].attempt < options.maxAttempts)
            => /\ i < Len(calls)
               /\ calls[i + 1].type = "onRetry"
    /\ (/\ pc = "done" /\ Cardinality(CallsAt) = options.maxAttempts
        /\ \A i \in CallsAt : ~calls[i].ok)
       => outcome = <<"thrown", options.maxAttempts>>
    /\ \A i \in DOMAIN calls :
         /\ calls[i].type = "onRetry"
            => /\ i > 1 /\ calls[i - 1].type = "call"
               /\ ~calls[i - 1].ok
               /\ calls[i].attempt = calls[i - 1].attempt
               /\ calls[i].error = calls[i].attempt
               /\ calls[i].attempt < options.maxAttempts
         /\ calls[i].type = "sleep"
            => calls[i].ms = ClaimedWait(calls[i].attempt)

\* C30: a call of retry with maxAttempts >= 1 ends, after at most
\* maxAttempts calls of fn; it returns the result of the first call that
\* succeeds and makes no call after it; when all maxAttempts calls fail it
\* throws the last call's error; onRetry is called once after each failed
\* call but the last, with that call's number and error; before attempt
\* k + 1 it waits min(delayMs * 2^(k-1), maxDelayMs).
C30_Retry ==
    /\ [](options.maxAttempts >= 1 => RetryContract)
    /\ <>(pc = "done")

\* three failed calls, onRetry after the first two, the second wait capped
C30_Witness ==
    /\ pc = "done" /\ outcome = <<"thrown", 3>>
    /\ options.onRetry /\ options.delayMs = 1000
    /\ options.maxDelayMs = 1500
    /\ Len(calls) = 7
    /\ calls[3].type = "sleep" /\ calls[3].ms = 1000
    /\ calls[6].type = "sleep" /\ calls[6].ms = 1500

====
